---- MODULE Spec2Model ----
(***************************************************************************)
(* A model of the storage adapters of waterbutler: the Swift, Azure Blob   *)
(* Storage and WEKO providers.                                             *)
(*                                                                         *)
(* Strings that the code takes apart (object keys, raw paths) are          *)
(* sequences of one-character strings, so that startswith, slicing,        *)
(* "'/' in s" and index('/') are computed as the code computes them.       *)
(*                                                                         *)
(* The code that lives outside src/ (waterbutler.core, the backend client  *)
(* libraries) is an external collaborator: a backend call is a step whose  *)
(* answer is drawn from the answers the backend can give.                  *)
(***************************************************************************)
EXTENDS Integers, Sequences, FiniteSets, TLC

VARIABLES
    pc,             \* position of the call in flight
    result,         \* what the last call returned or raised
    calls,          \* backend requests issued by the call in flight, in order
    adapter,        \* NAME of the provider the call is made on
    path,           \* the path argument of the call
    op,             \* the operation called, its other arguments, what its precheck found
    \* ---- SwiftProvider._delete_folder
    backend_keys,   \* keys under the folder prefix held by the backend, in listing order
    page_limit,     \* the most keys the backend puts in one listing response
    content_keys,   \* local: the accumulated keys
    marker,         \* local: the pagination marker
    more_to_come,   \* local: the loop flag
    list_requests,  \* the marker carried by each listing request, in order
    requests,       \* the bulk-delete requests issued, in order
    listed,         \* content_keys as it stood when the listing loop ended
    \* ---- _metadata_folder
    objects,        \* the container listing the backend answers with
    \* ---- the providers' backends
    container,      \* settings: the container (bucket) the provider is set up with
    store,          \* Swift, Azure: the object names in the provider's container
    service_doc,    \* WEKO: the indices of the service document, in order
    \* ---- upload
    stream,         \* the bytes of the source stream not read yet
    writers,        \* the names of the digest writers attached to the stream
    hashed,         \* the bytes the md5 writer was fed, in order
    scratch,        \* the temporary file: "none", "open" or "closed"
    scratch_data,   \* the bytes written to the temporary file
    exists,         \* local: what handle_name_conflict found
    etag            \* local: what the backend's put answered

deleteVars == <<backend_keys, page_limit, content_keys, marker, more_to_come,
                list_requests, requests, listed>>
listingVars == <<objects>>
backendVars == <<container, store, service_doc>>

uploadVars == <<stream, writers, hashed, scratch, scratch_data, exists, etag>>

vars == <<pc, result, calls, adapter, path, op, deleteVars, listingVars, backendVars,
          uploadVars>>

\* The state a specification's actions never touch.
otherThanDelete == <<listingVars, backendVars, uploadVars>>
otherThanListing == <<deleteVars, backendVars, uploadVars>>
otherThanOps == <<deleteVars, listingVars, uploadVars>>
otherThanUpload == <<deleteVars, listingVars, container, service_doc>>

\* What a specification leaves idle: the state of the other operations.
DeleteIdle ==
    /\ backend_keys = <<>>
    /\ page_limit = 0
    /\ content_keys = <<>>
    /\ marker = 0
    /\ more_to_come = FALSE
    /\ list_requests = <<>>
    /\ requests = <<>>
    /\ listed = <<>>

ListingIdle == objects = <<>>

BackendIdle ==
    /\ container = "c1"
    /\ store = {}
    /\ service_doc = <<>>

UploadIdle ==
    /\ stream = <<>>
    /\ writers = {}
    /\ hashed = <<>>
    /\ scratch = "none"
    /\ scratch_data = <<>>
    /\ exists = FALSE
    /\ etag = -1

----------------------------------------------------------------------------
(* Values shared by every part of the model *)

\* What a call that returns nothing returns, and a path without identifier.
NoneValue == [type |-> "None"]
NoIdentifier == <<>>

\* A list, as a returned value.
ListValue(items) == [type |-> "list", items |-> items]

Swift == "swift"
Azure == "azureblobstorage"
Weko  == "weko"

NoResult == [kind |-> "none"]
Raised(err, code) == [kind |-> "raised", error |-> err, code |-> code]
Returned(v) == [kind |-> "returned", value |-> v]

Min(a, b) == IF a < b THEN a ELSE b

Range(s) == {s[i] : i \in 1..Len(s)}

----------------------------------------------------------------------------
(* SwiftProvider._delete_folder: the paginated listing, then the bulk      *)
(* deletes in slices of 1000.  A key under the folder prefix is modelled   *)
(* by its rank in the backend's listing order (1 is the first key).        *)

BatchSize == 1000

NoMarker == 0

MaxFullBatches == 2

HalfBatch == BatchSize \div 2

\* The numbers of keys under the prefix that are tried: around every
\* multiple of half a batch, up to MaxFullBatches and a half batches.
KeyCounts ==
    {n \in 0..(MaxFullBatches * BatchSize + HalfBatch) :
        (n % HalfBatch) \in {0, 1, HalfBatch - 1}}

PageLimits == {700, 1000}

\* The keys of one listing response: the backend's keys after the marker,
\* at most page_limit of them.
AfterMarker(keys, m) == SelectSeq(keys, LAMBDA k : k > m)

ListingPage(keys, m, limit) ==
    LET rest == AfterMarker(keys, m)
    IN  [Contents    |-> SubSeq(rest, 1, Min(limit, Len(rest))),
         IsTruncated |-> Len(rest) > limit]

\* A slice one key short of what is then removed.
KeyBatchShort(keys) == SubSeq(keys, 1, Min(BatchSize - 1, Len(keys)))

\* key_batch = content_keys[:1000]
KeyBatch(keys) == SubSeq(keys, 1, Min(BatchSize, Len(keys)))

\* del content_keys[:1000]
DelBatch(keys) == SubSeq(keys, Min(BatchSize, Len(keys)) + 1, Len(keys))

DeleteInit ==
    /\ pc = "list"
    /\ result = NoResult
    /\ calls = <<>>
    /\ adapter = Swift
    /\ path = [raw |-> <<"/", "a", "/">>, identifier |-> NoIdentifier]
    /\ \E n \in KeyCounts : backend_keys = [i \in 1..n |-> i]
    /\ page_limit \in PageLimits
    /\ content_keys = <<>>
    /\ marker = NoMarker
    /\ more_to_come = TRUE
    /\ list_requests = <<>>
    /\ requests = <<>>
    /\ listed = <<>>
    /\ op = [name |-> "_delete_folder"]
    /\ ListingIdle
    /\ BackendIdle
    /\ UploadIdle

\* A listing turn that never moves the marker.
ListPageKeepsMarker ==
    /\ pc = "list"
    /\ more_to_come
    /\ LET page == ListingPage(backend_keys, marker, page_limit)
           keys == content_keys \o page.Contents
       IN  /\ list_requests' = Append(list_requests, marker)
           /\ calls' = Append(calls, "GET")
           /\ more_to_come' = page.IsTruncated
           /\ content_keys' = keys
           /\ marker' = marker
           /\ listed' = IF page.IsTruncated THEN listed ELSE keys
           /\ pc' = IF page.IsTruncated THEN "list" ELSE "check"
    /\ UNCHANGED <<result, adapter, path, op, backend_keys, page_limit, requests,
                   otherThanDelete>>

\* One turn of "while more_to_come": a listing request that answers 200.
ListPage ==
    /\ pc = "list"
    /\ more_to_come
    /\ LET page == ListingPage(backend_keys, marker, page_limit)
           keys == content_keys \o page.Contents
       IN  /\ list_requests' = Append(list_requests, marker)
           /\ calls' = Append(calls, "GET")
           /\ more_to_come' = page.IsTruncated
           /\ content_keys' = keys
           /\ marker' = IF Len(keys) > 0 THEN keys[Len(keys)] ELSE marker
           /\ listed' = IF page.IsTruncated THEN listed ELSE keys
           /\ pc' = IF page.IsTruncated THEN "list" ELSE "check"
    /\ UNCHANGED <<result, adapter, path, op, backend_keys, page_limit, requests,
                   otherThanDelete>>

\* A listing request that does not answer 200: make_request throws MetadataError.
ListPageFails ==
    /\ pc = "list"
    /\ more_to_come
    /\ list_requests' = Append(list_requests, marker)
    /\ calls' = Append(calls, "GET")
    /\ \E code \in {403, 500} : result' = Raised("MetadataError", code)
    /\ pc' = "raised"
    /\ UNCHANGED <<adapter, path, op, backend_keys, page_limit, content_keys, marker,
                   more_to_come, requests, listed, otherThanDelete>>

\* The emptiness check left out: on to the batches whatever was listed.
CheckEmptyMissing ==
    /\ pc = "check"
    /\ pc' = "batch"
    /\ UNCHANGED <<result, calls, adapter, path, op, deleteVars, otherThanDelete>>

\* "if len(content_keys) == 0: raise NotFoundError", else on to the batches.
CheckEmpty ==
    /\ pc = "check"
    /\ IF Len(content_keys) = 0
       THEN /\ result' = Raised("NotFoundError", 404)
            /\ pc' = "raised"
       ELSE /\ result' = result
            /\ pc' = "batch"
    /\ UNCHANGED <<calls, adapter, path, op, deleteVars, otherThanDelete>>

\* One turn of "while len(content_keys) > 0": a bulk-delete request that
\* answers 200 or 204; the backend drops the keys of the request.
DeleteBatch ==
    /\ pc = "batch"
    /\ Len(content_keys) > 0
    /\ LET key_batch == KeyBatch(content_keys)
           rest == DelBatch(content_keys)
       IN  /\ content_keys' = rest
           /\ requests' = Append(requests, [keys |-> key_batch, ok |-> TRUE])
           /\ calls' = Append(calls, "POST")
           /\ backend_keys' = SelectSeq(backend_keys,
                                        LAMBDA k : k \notin Range(key_batch))
           /\ IF Len(rest) > 0
              THEN /\ pc' = "batch"
                   /\ result' = result
              ELSE /\ pc' = "done"
                   /\ result' = Returned(NoneValue)
    /\ UNCHANGED <<adapter, path, op, page_limit, marker, more_to_come, list_requests,
                   listed, otherThanDelete>>

\* A failed bulk-delete request after which the loop carries on with the
\* batches that are left.
DeleteBatchFailsCarriesOn ==
    /\ pc = "batch"
    /\ Len(content_keys) > 0
    /\ content_keys' = DelBatch(content_keys)
    /\ requests' = Append(requests, [keys |-> KeyBatch(content_keys), ok |-> FALSE])
    /\ calls' = Append(calls, "POST")
    /\ \E code \in {403, 500} : result' = Raised("DeleteError", code)
    /\ pc' = IF Len(DelBatch(content_keys)) > 0 THEN "batch" ELSE "raised"
    /\ UNCHANGED <<adapter, path, op, backend_keys, page_limit, marker, more_to_come,
                   list_requests, listed, otherThanDelete>>

\* A bulk-delete request that answers anything else: DeleteError.  The slice
\* was already taken off content_keys.
DeleteBatchFails ==
    /\ pc = "batch"
    /\ Len(content_keys) > 0
    /\ content_keys' = DelBatch(content_keys)
    /\ requests' = Append(requests, [keys |-> KeyBatch(content_keys), ok |-> FALSE])
    /\ calls' = Append(calls, "POST")
    /\ \E code \in {403, 500} : result' = Raised("DeleteError", code)
    /\ pc' = "raised"
    /\ UNCHANGED <<adapter, path, op, backend_keys, page_limit, marker, more_to_come,
                   list_requests, listed, otherThanDelete>>

DeleteNext ==
    \/ ListPage
    \/ ListPageFails
    \/ CheckEmpty
    \/ DeleteBatch
    \/ DeleteBatchFails

SpecDelete == DeleteInit /\ [][DeleteNext]_vars

\* The keys at positions from..to of the sequence the listing accumulated.
ListedSlice(from, to) == [i \in 1..(to - from + 1) |-> listed[from + i - 1]]

\* The number of keys carried by the first k requests together.
RECURSIVE RequestSizes(_)
RequestSizes(k) ==
    IF k = 0 THEN 0 ELSE Len(requests[k].keys) + RequestSizes(k - 1)

AllRequestsOk == \A k \in 1..Len(requests) : requests[k].ok

\* C2: in the Swift folder delete, when the listing accumulated n >= 1 keys
\* and every bulk-delete request succeeds, the k-th request carries the keys
\* at positions 1000(k-1)+1 .. min(1000k, n) of the accumulated sequence in
\* order; when the call returns exactly ceil(n/1000) requests were issued,
\* every position of the sequence is in one request and the requests carry
\* n keys in all (so in exactly one), and the local key sequence is empty.
C2_BatchesAreThousandSlices ==
    (pc \in {"batch", "done"} /\ AllRequestsOk) =>
        LET n == Len(listed)
        IN  /\ n >= 1
            /\ \A k \in 1..Len(requests) :
                   /\ 1000 * (k - 1) + 1 <= n
                   /\ requests[k].keys =
                          ListedSlice(1000 * (k - 1) + 1, Min(1000 * k, n))
            /\ pc = "done" =>
                   /\ Len(requests) = (n + 999) \div 1000
                   /\ content_keys = <<>>
                   /\ result = Returned(NoneValue)
                   /\ \A i \in 1..n :
                          LET k == ((i - 1) \div 1000) + 1
                          IN  /\ k <= Len(requests)
                              /\ requests[k].keys[i - 1000 * (k - 1)] = listed[i]
                   /\ RequestSizes(Len(requests)) = n

\* 2500 keys were deleted in requests of 1000, 1000 and 500 keys.
C2_Witness ==
    /\ pc = "done"
    /\ Len(listed) = 2500
    /\ Len(requests) = 3
    /\ Len(requests[1].keys) = 1000
    /\ Len(requests[2].keys) = 1000
    /\ Len(requests[3].keys) = 500

\* The number of bulk-delete requests among the backend requests.
Posts == Cardinality({i \in 1..Len(calls) : calls[i] = "POST"})

\* C12: in the Swift folder delete, a bulk-delete request that failed is the
\* last request of the call, which ends with that request's DeleteError; the
\* requests before it succeeded, their keys are gone from the backend and
\* are in no other request; every bulk-delete request on the wire is one of
\* the batches (none undoes anything), and all of them follow the listing.
C12_FailedBatchEndsTheCall ==
    LET k == Len(requests)
    IN  /\ \A j \in 1..(k - 1) : requests[j].ok
        /\ (k > 0 /\ ~requests[k].ok) =>
              /\ pc = "raised"
              /\ result.kind = "raised"
              /\ result.error = "DeleteError"
              /\ calls[Len(calls)] = "POST"
              /\ Posts = k
              /\ \A i \in 1..Len(calls) :
                     calls[i] = "POST" => i > Len(calls) - k
              /\ \A j \in 1..(k - 1) :
                     /\ Range(requests[j].keys) \cap Range(backend_keys) = {}
                     /\ \A l \in (j + 1)..k :
                            Range(requests[j].keys) \cap Range(requests[l].keys) = {}

\* The third bulk-delete request failed after two that succeeded: the 500
\* keys of the third are what the backend still holds.
C12_Witness ==
    /\ pc = "raised"
    /\ Len(requests) = 3
    /\ ~requests[3].ok
    /\ Len(backend_keys) = 500
    /\ Range(backend_keys) = Range(requests[3].keys)

\* What holds of the listing phase in every state: the phase is on exactly
\* while the last response was truncated, the bulk deletes come after every
\* listing request and only once the phase has ended, the first listing
\* request carried no marker, and no key was accumulated twice.
ListingPhaseInvariant ==
    /\ pc = "list" => (more_to_come /\ requests = <<>>)
    /\ pc \in {"check", "batch", "done"} => ~more_to_come
    /\ requests # <<>> => ~more_to_come
    /\ \A i, j \in 1..Len(calls) : (calls[i] = "GET" /\ calls[j] = "POST") => i < j
    /\ Len(list_requests) = Cardinality({i \in 1..Len(calls) : calls[i] = "GET"})
    /\ list_requests # <<>> => list_requests[1] = NoMarker
    /\ Cardinality(Range(content_keys)) = Len(content_keys)

\* What holds of every listing request: it is the only thing the step does
\* on the wire, a request after the first carries the last key accumulated
\* before it, and the phase goes on after it exactly when its response is
\* truncated.
ListingRequestStep ==
    Len(list_requests') = Len(list_requests) + 1 =>
        /\ Len(calls') = Len(calls) + 1
        /\ list_requests # <<>> =>
              /\ content_keys # <<>>
              /\ list_requests'[Len(list_requests')] = content_keys[Len(content_keys)]
        /\ pc' \in {"list", "check", "raised"}
        /\ pc' = "list" => more_to_come'
        /\ pc' = "check" => ~more_to_come'

\* C15: in the listing phase of the Swift folder delete the listing
\* requests go one at a time, the first without a marker and each later one
\* with the last key accumulated so far; the phase ends exactly when a
\* response is not truncated; no bulk delete comes before that; and, with a
\* backend that answers only keys after the marker, no key is accumulated
\* twice.
C15_ListingPhaseIsSequential ==
    [](ListingPhaseInvariant) /\ [][ListingRequestStep]_vars

\* 2500 keys were listed in four requests of at most 700 keys, the later
\* ones carrying the 700th, 1400th and 2100th key as marker.
C15_Witness ==
    /\ pc = "check"
    /\ list_requests = <<NoMarker, 700, 1400, 2100>>
    /\ Len(content_keys) = 2500

\* C3: in the Swift folder delete, when the listing ends with zero
\* accumulated keys the call fails with NotFoundError, and no bulk-delete
\* request is ever issued.
C3_EmptyListingIsNotFound ==
    (~more_to_come /\ pc # "list" /\ Len(listed) = 0) =>
        /\ requests = <<>>
        /\ \A i \in 1..Len(calls) : calls[i] # "POST"
        /\ pc \in {"check", "raised"}
        /\ pc = "raised" => result = Raised("NotFoundError", 404)

\* A listing of at least one request ended empty and the call raised.
C3_Witness ==
    /\ pc = "raised"
    /\ result = Raised("NotFoundError", 404)
    /\ Len(list_requests) >= 1
    /\ listed = <<>>
    /\ requests = <<>>

----------------------------------------------------------------------------
(* Strings as sequences of characters, and the string operations the code  *)
(* uses on them.                                                            *)

\* str.startswith
StartsWith(s, p) == Len(p) <= Len(s) /\ SubSeq(s, 1, Len(p)) = p

\* str.endswith of one character
EndsWith(s, c) == Len(s) > 0 /\ s[Len(s)] = c

\* s[n:]
Strip(s, n) == SubSeq(s, n + 1, Len(s))

\* '/' in s
HasSlash(s) == \E i \in 1..Len(s) : s[i] = "/"

\* s[:s.index('/') + 1], for a string holding a '/'
UpToFirstSlash(s) ==
    SubSeq(s, 1, CHOOSE i \in 1..Len(s) :
                    s[i] = "/" /\ \A j \in 1..(i - 1) : s[j] # "/")

\* The code point of a character, which orders strings in sorted().
Ord(c) == CASE c = "/" -> 47
            [] c = "a" -> 97
            [] OTHER -> 128

\* s < t as Python compares strings
StrLess(s, t) ==
    \E i \in 1..(Min(Len(s), Len(t)) + 1) :
        /\ \A j \in 1..(i - 1) : s[j] = t[j]
        /\ \/ i > Len(s) /\ i <= Len(t)
           \/ i <= Len(s) /\ i <= Len(t) /\ Ord(s[i]) < Ord(t[i])

\* sorted(set) of strings
RECURSIVE SortedStrings(_)
SortedStrings(S) ==
    IF S = {} THEN <<>>
    ELSE LET least == CHOOSE x \in S : \A y \in S \ {x} : StrLess(x, y)
         IN  <<least>> \o SortedStrings(S \ {least})

----------------------------------------------------------------------------
(* WaterButlerPath, as far as the providers use it.  raw begins with '/'.  *)

Root == <<"/">>

MkPath(raw, identifier) == [raw |-> raw, identifier |-> identifier]

\* path.path: the raw path without its leading '/'
PathOf(p) == Strip(p.raw, 1)

IsRoot(p) == p.raw = Root
IsDir(p) == EndsWith(p.raw, "/")
IsFile(p) == ~IsDir(p)

----------------------------------------------------------------------------
(* _metadata_folder of the Swift and Azure providers: the folder listing   *)
(* synthesised from the flat container listing.                            *)

MaxKeyLen == 3

MaxObjects == 2

Alphabet == {"a", "/"}

Strings(n) == UNION {[1..k -> Alphabet] : k \in 0..n}

Keys == Strings(MaxKeyLen) \ {<<>>}

\* A container listing: object names, no name twice.
Listings ==
    {l \in UNION {[1..k -> Keys] : k \in 0..MaxObjects} :
        \A i, j \in 1..Len(l) : i # j => l[i] # l[j]}

\* Folder paths: the root, and one or more non-empty names each followed by '/'.
DirPaths ==
    {MkPath(<<"/">> \o k, NoIdentifier) :
        k \in {s \in Strings(MaxKeyLen) :
                  /\ s = <<>> \/ (EndsWith(s, "/") /\ s[1] # "/")
                  /\ \A i \in 1..(Len(s) - 1) : ~(s[i] = "/" /\ s[i + 1] = "/")}}

\* The listing {docs/, docs/a.txt, docs/sub/b.txt, docs/sub/c.txt} under
\* docs/, with a for docs and a.txt, aa for sub, a and aa for b.txt and c.txt.
DocsPath == MkPath(<<"/", "a", "/">>, NoIdentifier)
DocsListing ==
    << <<"a", "/">>,
       <<"a", "/", "a">>,
       <<"a", "/", "a", "a", "/", "a">>,
       <<"a", "/", "a", "a", "/", "a", "a">> >>

FolderEntry(prefix) == [type |-> "entry", kind |-> "folder", prefix |-> prefix]
FileEntry(key) == [type |-> "entry", kind |-> "file", key |-> key]

\* The pairs (name[len(path.path):], object) of the objects under the prefix.
Relative(objs, prefix) ==
    LET under == SelectSeq(objs, LAMBDA o : StartsWith(o, prefix))
    IN  [i \in 1..Len(under) |->
            [suffix |-> Strip(under[i], Len(prefix)), key |-> under[i]]]

\* The synthesis with the folder prefixes in descending order.
FolderItemsDescending(objs, prefix) ==
    LET rel == Relative(objs, prefix)
        contents == SelectSeq(rel, LAMBDA o : ~HasSlash(o.suffix))
        ascending == SortedStrings({UpToFirstSlash(rel[i].suffix) :
                                      i \in {j \in 1..Len(rel) : HasSlash(rel[j].suffix)}})
        prefixes == [i \in 1..Len(ascending) |-> ascending[Len(ascending) + 1 - i]]
        folders == [i \in 1..Len(prefixes) |-> FolderEntry(prefixes[i])]
        kept == SelectSeq(contents, LAMBDA o : o.suffix # prefix)
        files == [i \in 1..Len(kept) |-> FileEntry(kept[i].key)]
    IN  folders \o files

\* contents, prefixes and items of _metadata_folder
FolderItems(objs, prefix) ==
    LET rel == Relative(objs, prefix)
        contents == SelectSeq(rel, LAMBDA o : ~HasSlash(o.suffix))
        prefixes == SortedStrings({UpToFirstSlash(rel[i].suffix) :
                                     i \in {j \in 1..Len(rel) : HasSlash(rel[j].suffix)}})
        folders == [i \in 1..Len(prefixes) |-> FolderEntry(prefixes[i])]
        \* "if content_path == path.path: continue"
        kept == SelectSeq(contents, LAMBDA o : o.suffix # prefix)
        files == [i \in 1..Len(kept) |-> FileEntry(kept[i].key)]
    IN  folders \o files

\* SwiftProvider._metadata_folder
SwiftMetadataFolder(objs, p) == Returned(ListValue(FolderItems(objs, PathOf(p))))

\* The Azure listing without its emptiness test.
AzureMetadataFolderNoTest(objs, p) == Returned(ListValue(FolderItems(objs, PathOf(p))))

\* AzureBlobStorageProvider._metadata_folder
AzureMetadataFolder(objs, p) ==
    IF Len(Relative(objs, PathOf(p))) = 0
    THEN Raised("MetadataError", 404)
    ELSE Returned(ListValue(FolderItems(objs, PathOf(p))))

MetadataFolder(a, objs, p) ==
    IF a = Swift THEN SwiftMetadataFolder(objs, p) ELSE AzureMetadataFolder(objs, p)

ListingInit ==
    /\ pc = "call"
    /\ result = NoResult
    /\ calls = <<>>
    /\ adapter \in {Swift, Azure}
    /\ \/ path \in DirPaths /\ objects \in Listings
       \/ path = DocsPath /\ objects = DocsListing
    /\ op = [name |-> "_metadata_folder"]
    /\ DeleteIdle
    /\ BackendIdle
    /\ UploadIdle

\* A call of _metadata_folder(path): one container listing, then the synthesis.
MetadataFolderCall ==
    /\ pc = "call"
    /\ calls' = Append(calls, "LIST")
    /\ result' = MetadataFolder(adapter, objects, path)
    /\ pc' = "done"
    /\ UNCHANGED <<adapter, path, op, objects, otherThanListing>>

ListingNext == MetadataFolderCall

SpecListing == ListingInit /\ [][ListingNext]_vars

\* What the folder listing is to hold, from the keys alone.
SuffixOf(key) == Strip(key, Len(PathOf(path)))

KeysUnder == {k \in Range(objects) : StartsWith(k, PathOf(path))}

ExpectedFolders == {UpToFirstSlash(SuffixOf(k)) : k \in {x \in KeysUnder : HasSlash(SuffixOf(x))}}

ExpectedFiles == {k \in KeysUnder : SuffixOf(k) # <<>> /\ ~HasSlash(SuffixOf(k))}

EntriesOf(items, kind) == {i \in 1..Len(items) : items[i].kind = kind}

\* C5: the folder listing of the Swift and Azure adapters has exactly one
\* Folder entry per distinct first path segment of the keys lying deeper
\* than one level under the prefix, exactly one File entry per key whose
\* suffix after the prefix is non-empty and holds no '/', and no entry for
\* the key equal to the prefix (the folder's placeholder).
C5_ListingIsFoldersAndImmediateFiles ==
    (pc = "done" /\ result.kind = "returned") =>
        LET items == result.value.items
        IN  /\ {items[i].prefix : i \in EntriesOf(items, "folder")} = ExpectedFolders
            /\ Cardinality(EntriesOf(items, "folder")) = Cardinality(ExpectedFolders)
            /\ {items[i].key : i \in EntriesOf(items, "file")} = ExpectedFiles
            /\ Cardinality(EntriesOf(items, "file")) = Cardinality(ExpectedFiles)
            /\ \A i \in EntriesOf(items, "file") : items[i].key # PathOf(path)

\* The name of an entry of the listing: a folder's prefix candidate, a
\* file's key without the prefix of the listed folder.
EntryName(e) == IF e.kind = "folder" THEN e.prefix ELSE SuffixOf(e.key)

\* The position of a key in the backend listing.
KeyIndex(k) == CHOOSE n \in 1..Len(objects) : objects[n] = k

\* C14: in a folder listing of the Swift and Azure adapters over pairwise
\* distinct backend keys, no two entries have the same name (so none twice,
\* and none as both File and Folder), the Folder entries are in ascending
\* order of their names, and the File entries are in the order of their keys
\* in the backend listing.
C14_ListingNamesOnceAndOrdered ==
    (pc = "done" /\ result.kind = "returned") =>
        LET items == result.value.items
        IN  /\ \A i, j \in 1..Len(items) :
                   i # j => EntryName(items[i]) # EntryName(items[j])
            /\ \A i, j \in EntriesOf(items, "folder") :
                   i < j => StrLess(items[i].prefix, items[j].prefix)
            /\ \A i, j \in EntriesOf(items, "file") :
                   i < j => KeyIndex(items[i].key) < KeyIndex(items[j].key)

\* Two Folder entries were listed whose keys came in the other order from
\* the backend.
C14_Witness ==
    /\ pc = "done"
    /\ result.kind = "returned"
    /\ Len(objects) = 2
    /\ LET items == result.value.items
       IN  /\ Len(items) = 2
           /\ items[1].kind = "folder"
           /\ items[2].kind = "folder"
           /\ UpToFirstSlash(SuffixOf(objects[1])) = items[2].prefix

\* C17: when no backend key begins with the prefix of the listed folder, the
\* Azure folder metadata call fails with a not-found error of code 404 and
\* the Swift one returns the empty list; when some key does, both return a
\* listing.
C17_EmptyFolderAzure404SwiftEmpty ==
    pc = "done" =>
        /\ (KeysUnder = {} /\ adapter = Azure) =>
              (result.kind = "raised" /\ result.code = 404)
        /\ (KeysUnder = {} /\ adapter = Swift) => result = Returned(ListValue(<<>>))
        /\ KeysUnder # {} => result.kind = "returned"

\* The Azure call failed with 404 on a container that holds keys, none of
\* them under the prefix.
C17_Witness ==
    /\ pc = "done"
    /\ adapter = Azure
    /\ objects # <<>>
    /\ KeysUnder = {}
    /\ result.kind = "raised"

----------------------------------------------------------------------------
(* The operations of the three providers, each call as one step: the       *)
(* handler runs from its first line to its return or raise, and every      *)
(* backend request it makes is answered within the step.                   *)

MaxChain == 3

\* The object names a, a/, a/a, a/a/, ...
ChainKey(n) == [i \in 1..n |-> IF i % 2 = 1 THEN "a" ELSE "/"]

OpsKeys == {ChainKey(n) : n \in 1..MaxChain}

Identifiers == {NoIdentifier, <<"a">>}

\* The paths a call is made with: the root and /a, /a/, /a/a, ...; a WEKO
\* path may carry the identifier of a file.
OpsPaths(a) ==
    {MkPath(Root \o k, i) :
        k \in OpsKeys \cup {<<>>},
        i \in IF a = Weko THEN Identifiers ELSE {NoIdentifier}}

Adapters == {Swift, Azure, Weko}

MaxIndices == 2

IndexIds == {<<"a">>, <<"b">>}

\* Titles of nesting depth 0, 1 and 2.
Titles == {<<"t">>, <<"-", "-", "t">>, <<"-", "-", "-", "-", "t">>}

\* The service documents: up to MaxIndices indices, no identifier twice.
ServiceDocuments ==
    {d \in UNION {[1..k -> [id : IndexIds, title : Titles]] : k \in 0..MaxIndices} :
        \A i, j \in 1..Len(d) : i # j => d[i].id # d[j].id}

Containers == {"c1", "c2"}

\* Status codes of a backend request that is refused.
BackendErrors == {400, 500}

\* What one call does: its result, the backend requests it issued, and the
\* container it leaves.
Outcome(res, cs, st) == [result |-> res, calls |-> cs, store |-> st]

\* A backend request: its method and the object name (or prefix) it names.
Req(method, key) == [method |-> method, key |-> key]

\* An error that carries no status code.
RaisedPlain(err) == Raised(err, 0)

KeysUnderPrefix(st, prefix) == {k \in st : StartsWith(k, prefix)}

\* SwiftProvider._delete_folder on a container of fewer than 1000 keys: the
\* listing, the emptiness check and one bulk-delete request.
SwiftDeleteFolder(st, p) ==
    LET under == KeysUnderPrefix(st, PathOf(p))
    IN  {Outcome(Raised("MetadataError", c), <<Req("GET", PathOf(p))>>, st) : c \in BackendErrors}
        \cup
        (IF under = {}
         THEN {Outcome(Raised("NotFoundError", 404), <<Req("GET", PathOf(p))>>, st)}
         ELSE {Outcome(Returned(NoneValue), <<Req("GET", PathOf(p)), Req("POST", PathOf(p))>>, st \ under)}
              \cup {Outcome(Raised("DeleteError", c), <<Req("GET", PathOf(p)), Req("POST", PathOf(p))>>, st) :
                       c \in BackendErrors})

\* SwiftProvider.delete
SwiftDelete(st, p, confirm_delete) ==
    IF IsRoot(p) /\ ~(confirm_delete = 1)
    THEN {Outcome(Raised("DeleteError", 400), <<>>, st)}
    ELSE IF IsFile(p)
         THEN {Outcome(Returned(NoneValue), <<Req("DELETE", PathOf(p))>>, st \ {PathOf(p)})}
              \cup {Outcome(Raised("DeleteError", c), <<Req("DELETE", PathOf(p))>>, st) :
                       c \in BackendErrors}
         ELSE SwiftDeleteFolder(st, p)

\* AzureBlobStorageProvider.delete; _delete_folder raises NotImplementedError.
AzureDelete(st, p, confirm_delete) ==
    IF IsRoot(p) /\ ~(confirm_delete = 1)
    THEN {Outcome(Raised("DeleteError", 400), <<>>, st)}
    ELSE IF IsFile(p)
         THEN {Outcome(Returned(NoneValue), <<Req("DELETE", PathOf(p))>>, st \ {PathOf(p)})}
              \cup {Outcome(Raised("AzureHttpError", c), <<Req("DELETE", PathOf(p))>>, st) :
                       c \in BackendErrors}
         ELSE {Outcome(RaisedPlain("NotImplementedError"), <<>>, st)}

\* WEKOProvider.delete: confirm_delete falls into **kwargs; '/' + None is a
\* TypeError; otherwise one DELETE request, which must answer 204.
WekoDelete(st, p, confirm_delete) ==
    IF p.identifier = NoIdentifier
    THEN {Outcome(RaisedPlain("TypeError"), <<>>, st)}
    ELSE {Outcome(Returned(NoneValue), <<Req("DELETE", PathOf(p))>>, st \ {p.identifier})}
         \cup {Outcome(Raised("DeleteError", c), <<Req("DELETE", PathOf(p))>>, st) :
                  c \in BackendErrors}

DeleteOutcomes(a, st, p, confirm_delete) ==
    CASE a = Swift -> SwiftDelete(st, p, confirm_delete)
      [] a = Azure -> AzureDelete(st, p, confirm_delete)
      [] a = Weko  -> WekoDelete(st, p, confirm_delete)

Stream(key) == [type |-> "stream", of |-> key]

\* SwiftProvider.download: get_object raises ClientException unwrapped.
SwiftDownload(st, p) ==
    IF ~IsFile(p)
    THEN {Outcome(Raised("DownloadError", 400), <<>>, st)}
    ELSE IF PathOf(p) \in st
         THEN {Outcome(Returned(Stream(PathOf(p))), <<Req("GET", PathOf(p))>>, st),
               Outcome(Raised("ClientException", 500), <<Req("GET", PathOf(p))>>, st)}
         ELSE {Outcome(Raised("ClientException", 404), <<Req("GET", PathOf(p))>>, st)}

\* AzureBlobStorageProvider.download
AzureDownload(st, p) ==
    IF ~IsFile(p)
    THEN {Outcome(Raised("DownloadError", 400), <<>>, st)}
    ELSE IF PathOf(p) \in st
         THEN {Outcome(Returned(Stream(PathOf(p))), <<Req("GET", PathOf(p))>>, st),
               Outcome(Raised("AzureHttpError", 500), <<Req("GET", PathOf(p))>>, st)}
         ELSE {Outcome(Raised("AzureHttpError", 404), <<Req("GET", PathOf(p))>>, st)}

\* WEKOProvider.download: the only test is on the identifier.
WekoDownload(st, p) ==
    IF p.identifier = NoIdentifier
    THEN {Outcome(Raised("NotFoundError", 404), <<>>, st)}
    ELSE {Outcome(Returned(Stream(p.identifier)), <<Req("GET", PathOf(p))>>, st)}
         \cup {Outcome(Raised("DownloadError", c), <<Req("GET", PathOf(p))>>, st) :
                  c \in BackendErrors}

DownloadOutcomes(a, st, p) ==
    CASE a = Swift -> SwiftDownload(st, p)
      [] a = Azure -> AzureDownload(st, p)
      [] a = Weko  -> WekoDownload(st, p)

PathValue(raw) == [type |-> "WaterButlerPath", raw |-> raw]

\* SwiftProvider.validate_v1_path: a folder is looked up in the container
\* listing, a file with head_object, whose ClientException of any kind
\* becomes NotFoundError.
SwiftValidateV1Path(st, raw) ==
    IF raw = Root
    THEN {Outcome(Returned(PathValue(raw)), <<>>, st)}
    ELSE IF EndsWith(raw, "/")
         THEN IF KeysUnderPrefix(st, Strip(raw, 1)) = {}
              THEN {Outcome(Raised("NotFoundError", 404), <<Req("LIST", <<>>)>>, st)}
              ELSE {Outcome(Returned(PathValue(raw)), <<Req("LIST", <<>>)>>, st)}
         ELSE IF Strip(raw, 1) \in st
              THEN {Outcome(Returned(PathValue(raw)), <<Req("HEAD", Strip(raw, 1))>>, st),
                    Outcome(Raised("NotFoundError", 404), <<Req("HEAD", Strip(raw, 1))>>, st)}
              ELSE {Outcome(Raised("NotFoundError", 404), <<Req("HEAD", Strip(raw, 1))>>, st)}

\* AzureBlobStorageProvider.validate_v1_path: the except clause names
\* azureblobstorage_exceptions, which the module never binds, so an exception
\* of get_blob_properties ends as NameError.
AzureValidateV1Path(st, raw) ==
    IF raw = Root
    THEN {Outcome(Returned(PathValue(raw)), <<>>, st)}
    ELSE IF EndsWith(raw, "/")
         THEN IF KeysUnderPrefix(st, Strip(raw, 1)) = {}
              THEN {Outcome(Raised("NotFoundError", 404), <<Req("LIST", <<>>)>>, st)}
              ELSE {Outcome(Returned(PathValue(raw)), <<Req("LIST", <<>>)>>, st)}
         ELSE IF Strip(raw, 1) \in st
              THEN {Outcome(Returned(PathValue(raw)), <<Req("HEAD", Strip(raw, 1))>>, st),
                    Outcome(RaisedPlain("NameError"), <<Req("HEAD", Strip(raw, 1))>>, st)}
              ELSE {Outcome(RaisedPlain("NameError"), <<Req("HEAD", Strip(raw, 1))>>, st)}

\* validate_path of the three providers: WaterButlerPath(path), no lookup.
ValidatePathOutcomes(a, st, raw) == {Outcome(Returned(PathValue(raw)), <<>>, st)}

\* WEKOProvider.validate_v1_path: "return await self.validate_path(...)".
WekoValidateV1Path(st, raw) == ValidatePathOutcomes(Weko, st, raw)

ValidateV1PathOutcomes(a, st, raw) ==
    CASE a = Swift -> SwiftValidateV1Path(st, raw)
      [] a = Azure -> AzureValidateV1Path(st, raw)
      [] a = Weko  -> WekoValidateV1Path(st, raw)

\* Eligibility decided by the containers instead of the provider types.
SwiftCanIntraBySettings(self_type, dest, path_given, p) ==
    container = dest.container /\ ~(IF path_given THEN IsDir(p) ELSE FALSE)

\* can_intra_copy and can_intra_move of SwiftProvider (the same expression):
\* path is None or a Path.
SwiftCanIntra(self_type, dest, path_given, p) ==
    self_type = dest.type /\ ~(IF path_given THEN IsDir(p) ELSE FALSE)

\* can_intra_copy and can_intra_move of AzureBlobStorageProvider
AzureCanIntra(self_type, dest, path_given, p) == FALSE

\* WEKOProvider defines neither: the default policy of the providers.
WekoCanIntra(self_type, dest, path_given, p) ==
    self_type = dest.type /\ ~(IF path_given THEN IsDir(p) ELSE FALSE)

BoolValue(b) == [type |-> "bool", bool |-> b]

CanIntra(a, dest, path_given, p) ==
    CASE a = Swift -> SwiftCanIntra(a, dest, path_given, p)
      [] a = Azure -> AzureCanIntra(a, dest, path_given, p)
      [] a = Weko  -> WekoCanIntra(a, dest, path_given, p)

DestProviders == [type : Adapters, container : Containers]

\* The container listing the backend answers with: the names in order.
ContainerListing(st) == SortedStrings(st)

\* _metadata_file of SwiftProvider: head_object, ClientException to MetadataError.
SwiftMetadataFile(st, p) ==
    IF PathOf(p) \in st
    THEN {Outcome(Returned(FileEntry(PathOf(p))), <<Req("HEAD", PathOf(p))>>, st),
          Outcome(Raised("MetadataError", 500), <<Req("HEAD", PathOf(p))>>, st)}
    ELSE {Outcome(Raised("MetadataError", 404), <<Req("HEAD", PathOf(p))>>, st)}

\* SwiftProvider.metadata
SwiftMetadata(st, p) ==
    IF IsDir(p)
    THEN {Outcome(SwiftMetadataFolder(ContainerListing(st), p), <<Req("LIST", <<>>)>>, st)}
    ELSE SwiftMetadataFile(st, p)

\* _metadata_file of AzureBlobStorageProvider: get_blob_properties,
\* AzureHttpError to MetadataError.
AzureMetadataFile(st, p) ==
    IF PathOf(p) \in st
    THEN {Outcome(Returned(FileEntry(PathOf(p))), <<Req("HEAD", PathOf(p))>>, st),
          Outcome(Raised("MetadataError", 500), <<Req("HEAD", PathOf(p))>>, st)}
    ELSE {Outcome(Raised("MetadataError", 404), <<Req("HEAD", PathOf(p))>>, st)}

\* AzureBlobStorageProvider.metadata
AzureMetadata(st, p) ==
    IF IsDir(p)
    THEN {Outcome(AzureMetadataFolder(ContainerListing(st), p), <<Req("LIST", <<>>)>>, st)}
    ELSE AzureMetadataFile(st, p)

\* Index.nested: the number of leading '--' of the title.
RECURSIVE Nested(_)
Nested(title) ==
    IF StartsWith(title, <<"-", "-">>) THEN 1 + Nested(Strip(title, 2)) ELSE 0

\* One turn of the loop of get_all_indices over indices[i..]: ids holds the
\* identifier of the last index seen at each depth.  ids[index.nested - 1]
\* beyond the end of ids is an IndexError.
RECURSIVE AssignParents(_, _, _, _)
AssignParents(indices, i, ids, done) ==
    IF i > Len(indices) THEN [ok |-> TRUE, indices |-> done]
    ELSE LET index == indices[i]
             n == Nested(index.title)
         IN  IF n > 0 /\ n > Len(ids)
             THEN [ok |-> FALSE, indices |-> done]
             ELSE LET parent == IF n > 0 THEN ids[n] ELSE NoIdentifier
                      ids2 == IF Len(ids) = n + 1
                              THEN [ids EXCEPT ![n + 1] = index.id]
                              ELSE IF Len(ids) > n + 1
                                   THEN [SubSeq(ids, 1, n + 1) EXCEPT ![n + 1] = index.id]
                                   ELSE Append(ids, index.id)
                  IN  AssignParents(indices, i + 1, ids2,
                          Append(done, [id |-> index.id, title |-> index.title,
                                        parentIdentifier |-> parent]))

\* The indices handed back with no parentIdentifier set.
GetAllIndicesNoParents(doc) ==
    [ok |-> TRUE,
     indices |-> [i \in 1..Len(doc) |->
                     [id |-> doc[i].id, title |-> doc[i].title,
                      parentIdentifier |-> NoIdentifier]]]

\* client.get_all_indices: the indices of the service document, each with
\* its parentIdentifier.
GetAllIndices(doc) == AssignParents(doc, 1, <<>>, <<>>)

\* s.split('/')
RECURSIVE SplitSlash(_)
SplitSlash(s) ==
    IF ~HasSlash(s) THEN <<s>>
    ELSE LET first == UpToFirstSlash(s)
         IN  <<SubSeq(first, 1, Len(first) - 1)>> \o SplitSlash(Strip(s, Len(first)))

\* WEKOIndexMetadata and WEKOItemMetadata
WekoIndexEntry(index) ==
    [type |-> "entry", kind |-> "folder", id |-> index.id,
     parent |-> index.parentIdentifier, nested |-> Nested(index.title)]
WekoItemEntry(item, index) ==
    [type |-> "entry", kind |-> "file", id |-> item, index |-> index.id]

\* What get_items may answer for an index.
ItemAnswers == {<<>>, << <<"i">> >>}

ServiceDocument == <<"servicedocument.php">>

\* WEKOProvider.metadata
WekoMetadata(st, doc, p) ==
    LET fetched == GetAllIndices(doc)
        indices == fetched.indices
        get == <<Req("GET", ServiceDocument)>>
    IN  IF ~fetched.ok THEN {Outcome(RaisedPlain("IndexError"), get, st)}
        ELSE IF IsRoot(p)
        THEN LET top == SelectSeq(indices, LAMBDA x : Nested(x.title) = 0)
             IN  {Outcome(Returned(ListValue([i \in 1..Len(top) |-> WekoIndexEntry(top[i])])),
                          get, st)}
        ELSE IF IsDir(p)
        THEN LET parts == SplitSlash(PathOf(p))
                 parent == parts[Len(parts) - 1]
                 found == SelectSeq(indices, LAMBDA x : x.id = parent)
                 below == SelectSeq(indices, LAMBDA x : x.parentIdentifier = parent)
             IN  IF Len(found) = 0 THEN {Outcome(RaisedPlain("IndexError"), get, st)}
                 ELSE {Outcome(Returned(ListValue(
                                  [i \in 1..Len(below) |-> WekoIndexEntry(below[i])]
                                  \o [i \in 1..Len(items) |-> WekoItemEntry(items[i], found[1])])),
                               get \o <<Req("GET", found[1].id)>>, st) :
                          items \in ItemAnswers}
        ELSE {Outcome(Raised("MetadataError", 404), get, st)}

MetadataOutcomes(a, st, doc, p) ==
    CASE a = Swift -> SwiftMetadata(st, p)
      [] a = Azure -> AzureMetadata(st, p)
      [] a = Weko  -> WekoMetadata(st, doc, p)

\* BaseProvider.exists on a folder path, from the outcome of metadata: a
\* not-found error is false, a listing with entries is true.  Whether an
\* empty listing counts as existing is left open.
ExistsAnswers(md) ==
    IF md.kind = "raised" THEN {FALSE}
    ELSE IF md.value.items = <<>> THEN {TRUE, FALSE} ELSE {TRUE}

\* An outcome of create_folder, with what the precheck found.
Checked(o, found) ==
    [result |-> o.result, calls |-> o.calls, store |-> o.store, exists |-> found]

\* WaterButlerPath.validate_folder
ValidateFolder(p) == IsDir(p)

\* The body of create_folder around the write: md is what metadata(path)
\* answers in the precheck, written what the write leaves on success, failure
\* the error of a refused write.
CreateFolderOutcomes(st, p, folder_precheck, md, put, failure) ==
    IF ~ValidateFolder(p)
    THEN {Checked(Outcome(RaisedPlain("InvalidPathError"), <<>>, st), "unchecked")}
    ELSE LET pre == IF folder_precheck THEN <<Req("LIST", <<>>)>> ELSE <<>>
             seen == IF folder_precheck THEN ExistsAnswers(md) ELSE {FALSE}
             tag == IF folder_precheck THEN "false" ELSE "unchecked"
         IN  (IF folder_precheck /\ TRUE \in seen
              THEN {Checked(Outcome(Raised("FolderNamingConflict", 409), pre, st), "true")}
              ELSE {})
             \cup
             (IF FALSE \in seen
              THEN {Checked(Outcome(Returned(FolderEntry(PathOf(p))),
                                    pre \o <<put>>, st \cup {put.key}), tag)}
                   \cup {Checked(Outcome(Raised(failure, c), pre \o <<put>>, st), tag) :
                            c \in BackendErrors}
              ELSE {})

\* SwiftProvider.create_folder: a PUT of the key path.path.
SwiftCreateFolder(st, p, folder_precheck) ==
    CreateFolderOutcomes(st, p, folder_precheck,
                         SwiftMetadataFolder(ContainerListing(st), p),
                         Req("PUT", PathOf(p)), "CreateFolderError")

AzureKeep == <<".azureblobstoragekeep">>

\* AzureBlobStorageProvider.create_folder: create_blob_from_text of the key
\* path.path + '.azureblobstoragekeep' with the text ''.
AzureCreateFolder(st, p, folder_precheck) ==
    CreateFolderOutcomes(st, p, folder_precheck,
                         AzureMetadataFolder(ContainerListing(st), p),
                         Req("PUT", PathOf(p) \o AzureKeep), "AzureHttpError")

\* The answer of intra_copy: the destination's metadata and the created flag.
Copied(md, created) == [type |-> "copied", metadata |-> md, created |-> created]

\* intra_copy reporting the existence result itself as the created flag.
SwiftIntraCopyCreatedIsExists(st, source, dest) ==
    LET head == Req("HEAD", PathOf(dest))
        copy == [method |-> "COPY", key |-> PathOf(dest), source |-> PathOf(source)]
        found == PathOf(dest) \in st
        tag == IF found THEN "true" ELSE "false"
        after == st \cup {PathOf(dest)}
    IN  (IF found
         THEN {Checked(Outcome(Raised("MetadataError", 500), <<head>>, st), "unchecked")}
         ELSE {})
        \cup {Checked(Outcome(Raised("IntraCopyError", c), <<head, copy>>, st), tag) :
                 c \in BackendErrors \cup {404}}
        \cup (IF PathOf(source) \in st
              THEN {Checked(Outcome(Returned(Copied(FileEntry(PathOf(dest)), found)),
                                    <<head, copy, head>>, after), tag),
                    Checked(Outcome(Raised("MetadataError", 500),
                                    <<head, copy, head>>, after), tag)}
              ELSE {})

\* SwiftProvider.intra_copy to a destination in the same container:
\* dest_provider.exists(dest_path), then one PUT that carries the header
\* x-amz-copy-source and no body (the request recorded as COPY), which must
\* answer 200, then dest_provider.metadata(dest_path).  The backend answers
\* 404 to the copy of an object it does not hold.
SwiftIntraCopy(st, source, dest) ==
    LET head == Req("HEAD", PathOf(dest))
        copy == [method |-> "COPY", key |-> PathOf(dest), source |-> PathOf(source)]
        found == PathOf(dest) \in st
        tag == IF found THEN "true" ELSE "false"
        after == st \cup {PathOf(dest)}
    IN  (IF found
         THEN {Checked(Outcome(Raised("MetadataError", 500), <<head>>, st), "unchecked")}
         ELSE {})
        \cup {Checked(Outcome(Raised("IntraCopyError", c), <<head, copy>>, st), tag) :
                 c \in BackendErrors \cup {404}}
        \cup (IF PathOf(source) \in st
              THEN {Checked(Outcome(Returned(Copied(FileEntry(PathOf(dest)), ~found)),
                                    <<head, copy, head>>, after), tag),
                    Checked(Outcome(Raised("MetadataError", 500),
                                    <<head, copy, head>>, after), tag)}
              ELSE {})

OpsInit ==
    /\ pc = "idle"
    /\ result = NoResult
    /\ calls = <<>>
    /\ adapter \in Adapters
    /\ path = MkPath(Root, NoIdentifier)
    /\ op = [name |-> "none"]
    /\ container = "c1"
    /\ store \in IF adapter = Weko THEN {{}} ELSE SUBSET OpsKeys
    /\ service_doc \in IF adapter = Weko THEN ServiceDocuments ELSE {<<>>}
    /\ DeleteIdle
    /\ ListingIdle
    /\ UploadIdle

\* The call `call` on path p ends as outcome o.
Apply(o, call, p) ==
    /\ pc = "idle"
    /\ op' = call
    /\ path' = p
    /\ result' = o.result
    /\ calls' = o.calls
    /\ store' = o.store
    /\ UNCHANGED <<pc, adapter, container, service_doc, otherThanOps>>

Confirms == {0, 1, 2}

Delete ==
    \E p \in OpsPaths(adapter), confirm_delete \in Confirms :
        \E o \in DeleteOutcomes(adapter, store, p, confirm_delete) :
            Apply(o, [name |-> "delete", confirm_delete |-> confirm_delete], p)

Download ==
    \E p \in OpsPaths(adapter) :
        \E o \in DownloadOutcomes(adapter, store, p) :
            Apply(o, [name |-> "download"], p)

ValidateV1Path ==
    \E p \in OpsPaths(adapter) :
        \E o \in ValidateV1PathOutcomes(adapter, store, p.raw) :
            Apply(o, [name |-> "validate_v1_path"], MkPath(p.raw, NoIdentifier))

ValidatePath ==
    \E p \in OpsPaths(adapter) :
        \E o \in ValidatePathOutcomes(adapter, store, p.raw) :
            Apply(o, [name |-> "validate_path"], MkPath(p.raw, NoIdentifier))

\* can_intra_copy(dest_provider, path) or can_intra_move(dest_provider, path);
\* path defaults to None.
CanIntraCall ==
    \E name \in {"can_intra_copy", "can_intra_move"}, dest \in DestProviders,
       path_given \in BOOLEAN, p \in OpsPaths(adapter) :
        /\ p.identifier = NoIdentifier
        /\ path_given \/ p = MkPath(Root, NoIdentifier)
        /\ Apply(Outcome(Returned(BoolValue(CanIntra(adapter, dest, path_given, p))),
                         <<>>, store),
                 [name |-> name, dest |-> dest, path_given |-> path_given], p)

Metadata ==
    \E p \in OpsPaths(adapter) :
        \E o \in MetadataOutcomes(adapter, store, service_doc, p) :
            Apply(o, [name |-> "metadata"], p)

\* create_folder of the Swift and Azure providers
CreateFolder ==
    /\ adapter \in {Swift, Azure}
    /\ \E p \in OpsPaths(adapter), folder_precheck \in BOOLEAN :
          \E o \in IF adapter = Swift THEN SwiftCreateFolder(store, p, folder_precheck)
                   ELSE AzureCreateFolder(store, p, folder_precheck) :
              Apply(o, [name |-> "create_folder", folder_precheck |-> folder_precheck,
                        exists |-> o.exists], p)

\* intra_copy of the Swift provider, between two file paths
IntraCopy ==
    /\ adapter = Swift
    /\ \E source \in OpsPaths(adapter), dest \in OpsPaths(adapter) :
          /\ IsFile(source) /\ ~IsRoot(source)
          /\ IsFile(dest) /\ ~IsRoot(dest)
          /\ \E o \in SwiftIntraCopy(store, source, dest) :
                Apply(o, [name |-> "intra_copy", source |-> PathOf(source),
                          exists |-> o.exists, before |-> store], dest)

OpsNext ==
    \/ IntraCopy
    \/ Delete
    \/ Download
    \/ ValidateV1Path
    \/ ValidatePath
    \/ CanIntraCall
    \/ Metadata
    \/ CreateFolder

SpecOps == OpsInit /\ [][OpsNext]_vars

\* C1: for every adapter, delete of the root path with confirm_delete other
\* than 1 fails with DeleteError carrying code 400, and no backend request
\* was issued by the call.
C1_RootDeleteNeedsConfirm ==
    (op.name = "delete" /\ IsRoot(path) /\ op.confirm_delete # 1) =>
        /\ result = Raised("DeleteError", 400)
        /\ calls = <<>>

\* C8: for every adapter, download of a path that is not a file fails with
\* DownloadError carrying code 400, and no backend request was issued.
C8_DownloadNeedsFile ==
    (op.name = "download" /\ ~IsFile(path)) =>
        /\ result = Raised("DownloadError", 400)
        /\ calls = <<>>

\* The one answer for each pair of adapter types and directory flag.
IntraAnswer(self_type, dest_type, is_dir) ==
    self_type = dest_type /\ self_type # Azure /\ ~is_dir

\* C6: for every adapter, can_intra_copy and can_intra_move answer false
\* whenever the destination adapter is of another backend type and whenever
\* the path is a directory; and the answer is a function of the two adapter
\* types and the path's directory flag alone, whatever the settings of the
\* two adapters, the container's content and the operations called before.
C6_IntraEligibilityIsPure ==
    (op.name \in {"can_intra_copy", "can_intra_move"}) =>
        /\ result.kind = "returned"
        /\ calls = <<>>
        /\ (op.dest.type # adapter \/ (op.path_given /\ IsDir(path))) =>
               result.value = BoolValue(FALSE)
        /\ result.value =
               BoolValue(IntraAnswer(adapter, op.dest.type, op.path_given /\ IsDir(path)))

\* After other operations, a destination of another type but the same
\* container was refused.
C6_Witness ==
    /\ op.name = "can_intra_copy"
    /\ adapter = Swift
    /\ op.dest.type # adapter
    /\ op.dest.container = container
    /\ op.path_given /\ IsFile(path)
    /\ result.value = BoolValue(FALSE)
    /\ store # {}

\* C7: for every adapter, validate_v1_path of a non-root raw path fails with
\* NotFoundError when raw ends in '/' and no backend key begins with raw
\* minus its leading '/', and when raw does not end in '/' and no backend key
\* equals it; it returns a Path only after a lookup that found something;
\* and validate_path issues no backend request.
C7_ValidateV1PathConfirmsExistence ==
    /\ (op.name = "validate_v1_path" /\ path.raw # Root) =>
          LET key == Strip(path.raw, 1)
              found == IF EndsWith(path.raw, "/")
                       THEN \E k \in store : StartsWith(k, key)
                       ELSE key \in store
          IN  /\ ~found => result = Raised("NotFoundError", 404)
              /\ result.kind = "returned" => (found /\ calls # <<>>)
    /\ op.name = "validate_path" => calls = <<>>

\* The PUT requests among the backend requests of the call.
Puts == {i \in 1..Len(calls) : calls[i].method = "PUT"}

\* C9: in create_folder of the Swift and Azure adapters, a path that is not
\* a directory fails with InvalidPathError before any backend request; with
\* folder_precheck true and exists(path) true the call fails with
\* FolderNamingConflict and nothing is written; otherwise exactly one marker
\* object is written, whose key is the folder path followed by the adapter's
\* sentinel suffix ('.azureblobstoragekeep' for Azure), and when the backend
\* accepts it Folder metadata for the path is returned.
C9_CreateFolderWritesSentinelMarker ==
    (op.name = "create_folder") =>
        /\ ~IsDir(path) =>
              /\ result = RaisedPlain("InvalidPathError")
              /\ calls = <<>>
        /\ (IsDir(path) /\ op.folder_precheck /\ op.exists = "true") =>
              /\ result = Raised("FolderNamingConflict", 409)
              /\ Puts = {}
        /\ (IsDir(path) /\ ~(op.folder_precheck /\ op.exists = "true")) =>
              /\ Cardinality(Puts) = 1
              /\ \A i \in Puts :
                    /\ StartsWith(calls[i].key, PathOf(path))
                    /\ Len(calls[i].key) > Len(PathOf(path))
                    /\ adapter = Azure =>
                          calls[i].key = PathOf(path) \o <<".azureblobstoragekeep">>
                    /\ result.kind = "returned" => calls[i].key \in store
              /\ result.kind = "returned" => result.value = FolderEntry(PathOf(path))

\* Whether a Swift or Azure listing entry is an immediate child of the path.
ImmediateChild(e) ==
    IF e.kind = "folder"
    THEN /\ Len(e.prefix) > 1
         /\ EndsWith(e.prefix, "/")
         /\ ~HasSlash(SubSeq(e.prefix, 1, Len(e.prefix) - 1))
    ELSE /\ StartsWith(e.key, PathOf(path))
         /\ Len(e.key) > Len(PathOf(path))
         /\ ~HasSlash(Strip(e.key, Len(PathOf(path))))

\* Whether the file the path names exists.
FileExists ==
    IF adapter = Weko THEN path.identifier # NoIdentifier ELSE PathOf(path) \in store

\* C10: for every adapter, metadata of a file path that exists does not
\* fail as not found or unsupported and returns one Metadata Entry, not a
\* list; metadata of a directory path returns a list that holds immediate
\* children of the directory only.
C10_MetadataOneEntryOrChildren ==
    (op.name = "metadata") =>
        /\ (IsFile(path) /\ FileExists) =>
              /\ result.kind = "raised" => result.code # 404
              /\ result.kind = "returned" =>
                    (result.value.type = "entry" /\ result.value.kind = "file")
        /\ (IsDir(path) /\ result.kind = "returned") =>
              /\ result.value.type = "list"
              /\ adapter # Weko =>
                    \A i \in 1..Len(result.value.items) :
                        ImmediateChild(result.value.items[i])

-----------------------------------------------------------------------------
\* upload of SwiftProvider and AzureBlobStorageProvider, step by step

ChunkSize == 100

MaxChunks == 2
MaxShortStream == 2

Bytes == {0, 1}

NoEtag == -1

\* The source streams: every short one, and patterned ones around the
\* multiples of the chunk size.
ShortStreams == UNION {[1..n -> Bytes] : n \in 0..MaxShortStream}
LongStream(n) == [i \in 1..n |-> i % 2]
Streams ==
    ShortStreams \cup {LongStream(ChunkSize * k + d) : k \in 1..MaxChunks, d \in {0, 1}}

\* hashlib.md5 of a byte sequence, as a small checksum: order-sensitive and
\* not injective.
RECURSIVE WeightedSum(_, _, _)
WeightedSum(bytes, lo, hi) ==
    IF lo > hi THEN 0
    ELSE IF lo = hi THEN lo * (bytes[lo] + 1)
    ELSE LET mid == (lo + hi) \div 2
         IN  WeightedSum(bytes, lo, mid) + WeightedSum(bytes, mid + 1, hi)

Md5(bytes) == (5 + WeightedSum(bytes, 1, Len(bytes))) % 16

\* An entity tag that is not the checksum of the bytes.
Corrupted(bytes) == (Md5(bytes) + 1) % 16

Conflicts == {"replace", "keep"}

\* path.increment_name: the name with ' (1)' appended.
IncrementName(p) == MkPath(p.raw \o <<" (1)">>, p.identifier)

MetadataFile(a, st, p) ==
    IF a = Swift THEN SwiftMetadataFile(st, p) ELSE AzureMetadataFile(st, p)

\* streams.ZipStreamReader over one file: the bytes between the marks of a
\* local header and of the central directory.
Zip(bytes) == <<2>> \o bytes \o <<3>>

\* What the WEKO repository holds before upload: the file the path's
\* identifier names, if it names one.
WekoFiles(p) == IF p.identifier = NoIdentifier THEN {} ELSE {p.identifier}

UploadInit ==
    /\ result = NoResult
    /\ calls = <<>>
    /\ adapter \in Adapters
    /\ pc = IF adapter = Weko THEN "zip" ELSE "handle_name_conflict"
    /\ path \in {p \in OpsPaths(adapter) : IsFile(p) /\ ~IsRoot(p)}
    /\ stream \in Streams
    /\ \E conflict \in IF adapter = Weko THEN {"replace"} ELSE Conflicts :
          op = [name |-> "upload", conflict |-> conflict, source |-> stream]
    /\ container = "c1"
    /\ store \in IF adapter = Weko THEN {WekoFiles(path)} ELSE SUBSET OpsKeys
    /\ service_doc = <<>>
    /\ writers = {}
    /\ hashed = <<>>
    /\ scratch = "none"
    /\ scratch_data = <<>>
    /\ exists = FALSE
    /\ etag = NoEtag
    /\ DeleteIdle
    /\ ListingIdle

\* handle_name_conflict: exists(path) is metadata(path) with a 404 read as
\* false; under 'keep' a taken name is incremented until a free one is found.
HandleNameConflict ==
    /\ pc = "handle_name_conflict"
    /\ \E o \in MetadataFile(adapter, store, path) :
         /\ IF o.result.kind = "returned" THEN TRUE ELSE o.result.code = 404
         /\ LET found == o.result.kind = "returned"
                renamed == IncrementName(path)
                taken == found /\ op.conflict = "keep"
            IN  /\ exists' = IF taken THEN FALSE ELSE found
                /\ path' = IF taken THEN renamed ELSE path
                /\ calls' = IF taken
                            THEN calls \o o.calls \o <<Req("HEAD", PathOf(renamed))>>
                            ELSE calls \o o.calls
    /\ pc' = "add_writer"
    /\ UNCHANGED <<result, adapter, op, store, stream, writers, hashed, scratch,
                   scratch_data, etag, otherThanUpload>>

\* exists(path) re-raises a metadata error that is not a 404.
HandleNameConflictFails ==
    /\ pc = "handle_name_conflict"
    /\ \E o \in MetadataFile(adapter, store, path) :
         /\ IF o.result.kind = "raised" THEN o.result.code # 404 ELSE FALSE
         /\ result' = o.result
         /\ calls' = calls \o o.calls
    /\ pc' = "raised"
    /\ UNCHANGED <<adapter, path, op, store, uploadVars, otherThanUpload>>

\* stream.add_writer('md5', ...)
AddWriter ==
    /\ pc = "add_writer"
    /\ writers' = writers \cup {"md5"}
    /\ pc' = "open"
    /\ UNCHANGED <<result, calls, adapter, path, op, store, stream, hashed, scratch,
                   scratch_data, exists, etag, otherThanUpload>>

\* with tempfile.TemporaryFile() as f
OpenScratch ==
    /\ pc = "open"
    /\ scratch' = "open"
    /\ pc' = "read"
    /\ UNCHANGED <<result, calls, adapter, path, op, store, stream, writers, hashed,
                   scratch_data, exists, etag, otherThanUpload>>

\* chunk = await stream.read(100), not empty; f.write(chunk).  The writers of
\* the stream are fed the chunk as it is read.
ReadChunk ==
    /\ pc = "read"
    /\ stream # <<>>
    /\ LET n == Min(ChunkSize, Len(stream))
           chunk == SubSeq(stream, 1, n)
       IN  /\ stream' = SubSeq(stream, n + 1, Len(stream))
           /\ hashed' = IF "md5" \in writers THEN hashed \o chunk ELSE hashed
           /\ scratch_data' = scratch_data \o chunk
    /\ UNCHANGED <<pc, result, calls, adapter, path, op, store, writers, scratch,
                   exists, etag, otherThanUpload>>

\* The read answers nothing: break, f.seek(0).
ReadEnd ==
    /\ pc = "read"
    /\ stream = <<>>
    /\ pc' = "put"
    /\ UNCHANGED <<result, calls, adapter, path, op, store, uploadVars, otherThanUpload>>

\* The read fails: the with block closes the file and the error leaves upload.
ReadFails ==
    /\ pc = "read"
    /\ scratch' = "closed"
    /\ result' = RaisedPlain("StreamError")
    /\ pc' = "raised"
    /\ UNCHANGED <<calls, adapter, path, op, store, stream, writers, hashed,
                   scratch_data, exists, etag, otherThanUpload>>

\* etag = self.connection.put_object(self.container, path.path, f): the
\* backend stores the object and answers an entity tag, the checksum of the
\* bytes or another one.
PutObject ==
    /\ pc = "put"
    /\ store' = store \cup {PathOf(path)}
    /\ calls' = calls \o <<Req("PUT", PathOf(path))>>
    /\ etag' \in {Md5(scratch_data), Corrupted(scratch_data)}
    /\ pc' = "compare"
    /\ UNCHANGED <<result, adapter, path, op, stream, writers, hashed, scratch,
                   scratch_data, exists, otherThanUpload>>

\* The backend refuses the put: the with block closes the file.
PutObjectFails ==
    /\ pc = "put"
    /\ \E code \in BackendErrors :
         result' = Raised(IF adapter = Swift THEN "ClientException" ELSE "AzureHttpError",
                          code)
    /\ calls' = calls \o <<Req("PUT", PathOf(path))>>
    /\ scratch' = "closed"
    /\ pc' = "raised"
    /\ UNCHANGED <<adapter, path, op, store, stream, writers, hashed, scratch_data,
                   exists, etag, otherThanUpload>>

\* assert etag == stream.writers['md5'].hexdigest, then the end of the with
\* block.
CompareEtag ==
    /\ pc = "compare"
    /\ scratch' = "closed"
    /\ IF etag = Md5(hashed)
       THEN /\ pc' = "metadata"
            /\ UNCHANGED result
       ELSE /\ pc' = "raised"
            /\ result' = RaisedPlain("AssertionError")
    /\ UNCHANGED <<calls, adapter, path, op, store, stream, writers, hashed,
                   scratch_data, exists, etag, otherThanUpload>>

\* return (await self.metadata(path, **kwargs)), not exists
UploadMetadata ==
    /\ pc = "metadata"
    /\ \E o \in MetadataFile(adapter, store, path) :
         /\ calls' = calls \o o.calls
         /\ IF o.result.kind = "returned"
            THEN /\ result' = Returned([type |-> "uploaded",
                                        metadata |-> o.result.value,
                                        created |-> ~exists])
                 /\ pc' = "done"
            ELSE /\ result' = o.result
                 /\ pc' = "raised"
    /\ UNCHANGED <<adapter, path, op, store, uploadVars, otherThanUpload>>

\* WEKOProvider.upload: stream = streams.ZipStreamReader(...)
WekoZip ==
    /\ pc = "zip"
    /\ stream' = Zip(stream)
    /\ pc' = "weko_open"
    /\ UNCHANGED <<result, calls, adapter, path, op, store, writers, hashed, scratch,
                   scratch_data, exists, etag, otherThanUpload>>

\* f = tempfile.TemporaryFile()
WekoOpenScratch ==
    /\ pc = "weko_open"
    /\ scratch' = "open"
    /\ pc' = "weko_read"
    /\ UNCHANGED <<result, calls, adapter, path, op, store, stream, writers, hashed,
                   scratch_data, exists, etag, otherThanUpload>>

\* chunk = await stream.read(), not empty; f.write(chunk).  A read without a
\* size answers one byte or all that is left.
WekoReadChunk ==
    /\ pc = "weko_read"
    /\ stream # <<>>
    /\ \E n \in {1, Len(stream)} :
         LET chunk == SubSeq(stream, 1, n)
         IN  /\ stream' = SubSeq(stream, n + 1, Len(stream))
             /\ hashed' = IF "md5" \in writers THEN hashed \o chunk ELSE hashed
             /\ scratch_data' = scratch_data \o chunk
    /\ UNCHANGED <<pc, result, calls, adapter, path, op, store, writers, scratch,
                   exists, etag, otherThanUpload>>

\* The end of the read loop going on to the POST whatever the identifier.
WekoReadEndSkipsDelete ==
    /\ pc = "weko_read"
    /\ stream = <<>>
    /\ pc' = "weko_post"
    /\ UNCHANGED <<result, calls, adapter, path, op, store, uploadVars, otherThanUpload>>

\* The read answers nothing: stream = FileStreamReader(f), the headers, and
\* the test of path.identifier.
WekoReadEnd ==
    /\ pc = "weko_read"
    /\ stream = <<>>
    /\ pc' = IF path.identifier # NoIdentifier THEN "weko_delete" ELSE "weko_post"
    /\ UNCHANGED <<result, calls, adapter, path, op, store, uploadVars, otherThanUpload>>

\* The read fails: nothing closes the file, the error leaves upload.
WekoReadFails ==
    /\ pc = "weko_read"
    /\ result' = RaisedPlain("StreamError")
    /\ pc' = "raised"
    /\ UNCHANGED <<calls, adapter, path, op, store, uploadVars, otherThanUpload>>

\* await self.delete(path)
WekoDeleteOld ==
    /\ pc = "weko_delete"
    /\ \E o \in WekoDelete(store, path, 0) :
         /\ calls' = calls \o o.calls
         /\ store' = o.store
         /\ IF o.result.kind = "returned"
            THEN /\ pc' = "weko_post"
                 /\ UNCHANGED result
            ELSE /\ pc' = "raised"
                 /\ result' = o.result
    /\ UNCHANGED <<adapter, path, op, uploadVars, otherThanUpload>>

\* resp = await self.make_request('POST', ..., expects=(201, ),
\* throws=exceptions.UploadError)
WekoPost ==
    /\ pc = "weko_post"
    /\ calls' = calls \o <<Req("POST", PathOf(path))>>
    /\ \/ /\ pc' = "weko_get_data"
          /\ UNCHANGED result
       \/ /\ pc' = "raised"
          /\ \E c \in BackendErrors : result' = Raised("UploadError", c)
    /\ UNCHANGED <<adapter, path, op, store, uploadVars, otherThanUpload>>

\* metadata = await self._get_data('latest'); next(file for file in files if
\* file.name == path.name); return file_metadata, path.identifier is None.
\* WEKOProvider defines no _get_data: the attribute lookup fails unless a
\* base class supplies it, and then the file is in the list or is not.
WekoGetData ==
    /\ pc = "weko_get_data"
    /\ \/ /\ result' = RaisedPlain("AttributeError")
          /\ pc' = "raised"
          /\ UNCHANGED calls
       \/ /\ result' = RaisedPlain("StopIteration")
          /\ pc' = "raised"
          /\ calls' = calls \o <<Req("GET", <<>>)>>
       \/ /\ result' = Returned([type |-> "uploaded",
                                  metadata |-> FileEntry(PathOf(path)),
                                  created |-> path.identifier = NoIdentifier])
          /\ pc' = "done"
          /\ calls' = calls \o <<Req("GET", <<>>)>>
    /\ UNCHANGED <<adapter, path, op, store, uploadVars, otherThanUpload>>

\* The temporary file of WEKOProvider.upload is closed by nothing in the
\* call: it is closed when the file object is collected, at some moment after
\* the call has ended.
CollectScratch ==
    /\ adapter = Weko
    /\ pc \in {"done", "raised"}
    /\ scratch = "open"
    /\ scratch' = "closed"
    /\ UNCHANGED <<pc, result, calls, adapter, path, op, store, stream, writers, hashed,
                   scratch_data, exists, etag, otherThanUpload>>

UploadNext ==
    \/ WekoZip
    \/ WekoOpenScratch
    \/ WekoReadChunk
    \/ WekoReadEnd
    \/ WekoReadFails
    \/ WekoDeleteOld
    \/ WekoPost
    \/ WekoGetData
    \/ CollectScratch
    \/ HandleNameConflict
    \/ HandleNameConflictFails
    \/ AddWriter
    \/ OpenScratch
    \/ ReadChunk
    \/ ReadEnd
    \/ ReadFails
    \/ PutObject
    \/ PutObjectFails
    \/ CompareEtag
    \/ UploadMetadata

SpecUpload == UploadInit /\ [][UploadNext]_vars

\* C4: in upload of the Swift and Azure adapters, when the entity tag the
\* backend answered differs from the MD5 computed locally, the call fails
\* with UploadChecksumError, no metadata is retrieved afterwards, and the
\* object already written is left in place: no delete is issued.
C4_ChecksumMismatchIsUploadChecksumError ==
    (op.name = "upload" /\ etag # NoEtag /\ etag # Md5(hashed) /\ pc # "compare") =>
        /\ pc = "raised"
        /\ result.kind = "raised"
        /\ result.error = "UploadChecksumError"
        /\ calls[Len(calls)].method = "PUT"
        /\ PathOf(path) \in store
        /\ \A i \in 1..Len(calls) : calls[i].method # "DELETE"

\* C11: in upload of every adapter, once the call has returned or raised its
\* scratch buffer is no longer held, whichever way the call ended.
C11_ScratchReleasedOnEveryExit ==
    (op.name = "upload" /\ pc \in {"done", "raised"}) => scratch # "open"

\* The positions of the requests of one method among the backend requests.
CallsOf(method) == {i \in 1..Len(calls) : calls[i].method = method}

\* C13: in intra_copy of the Swift adapter, the destination existence check
\* comes before the copy request, the destination metadata is fetched only
\* after a copy request that succeeded, the created flag is the negation of
\* the existence result, no request reads or writes the object's bytes, and
\* a copy request that does not answer 200 ends the call with IntraCopyError
\* and no metadata.
C13_IntraCopyOrder ==
    op.name = "intra_copy" =>
        LET copies == CallsOf("COPY")
            heads == CallsOf("HEAD")
            succeeded == PathOf(path) \in store /\ op.source \in op.before
        IN  /\ CallsOf("GET") = {} /\ CallsOf("PUT") = {}
            /\ Cardinality(copies) <= 1
            /\ copies # {} => 1 \in heads /\ copies = {2}
            /\ \A i \in heads : i > 1 => (copies = {2} /\ i = 3 /\ succeeded)
            /\ result.kind = "returned" =>
                  /\ calls[Len(calls)].method = "HEAD" /\ Len(calls) = 3
                  /\ op.exists \in {"true", "false"}
                  /\ result.value.created = (op.exists = "false")
                  /\ (op.exists = "true") = (PathOf(path) \in op.before)
            /\ (copies # {} /\ Len(calls) = 2) =>
                  /\ result.kind = "raised"
                  /\ result.error = "IntraCopyError"

\* A copy onto a name that was taken answered created false, and a copy
\* onto a free name answered created true.
C13_Witness ==
    /\ op.name = "intra_copy"
    /\ result.kind = "returned"
    /\ op.exists = "true"
    /\ ~result.value.created
    /\ op.source # PathOf(path)

\* The requests that commit the scratch buffer to the backend.
Commits == {i \in 1..Len(calls) : calls[i].method \in {"PUT", "POST"}}

\* The bytes the scratch buffer holds once the stream is drained.
Drained == IF adapter = Weko THEN Zip(op.source) ELSE op.source

\* C16: in upload of every adapter, a digest accumulator is on the stream
\* before the first chunk is read, so that it is fed every byte the scratch
\* buffer gets; the commit request is made only when the stream is drained
\* whole into the scratch buffer; after the commit the backend's token is
\* compared with the local digest, and metadata is fetched and the call
\* returns only when they were equal; the created flag is the negation of
\* the existence result, which was obtained before any byte was read.
C16_UploadStepOrder ==
    op.name = "upload" =>
        /\ scratch_data # <<>> => ("md5" \in writers /\ hashed = scratch_data)
        /\ Commits # {} => (stream = <<>> /\ scratch_data = Drained)
        /\ pc \in {"handle_name_conflict", "add_writer", "zip"} =>
              (stream = op.source /\ scratch_data = <<>>)
        /\ (\E i \in Commits : i < Len(calls)) =>
              (etag # NoEtag /\ etag = Md5(hashed))
        /\ pc \in {"metadata", "done"} =>
              (Commits # {} /\ etag # NoEtag /\ etag = Md5(hashed))
        /\ pc = "done" =>
              /\ result.kind = "returned"
              /\ result.value.created = ~exists

-----------------------------------------------------------------------------
\* client.get_all_indices over longer service documents

MaxDocLen == 4
MaxDepth == 2

\* The raw title of an index at a nesting depth: '--' per level, then the name.
TitleAt(depth) == [i \in 1..(2 * depth) |-> "-"] \o <<"t">>

\* The identifier of the i-th index of a document.
IdAt(i) == [k \in 1..i |-> "i"]

\* The service documents: up to MaxDocLen indices of any depths, each with
\* an identifier of its own.
IndexDocuments ==
    {[i \in 1..Len(depths) |-> [id |-> IdAt(i), title |-> TitleAt(depths[i])]] :
        depths \in UNION {[1..n -> 0..MaxDepth] : n \in 0..MaxDocLen}}

IndicesInit ==
    /\ pc = "call"
    /\ result = NoResult
    /\ calls = <<>>
    /\ adapter = Weko
    /\ path = MkPath(Root, NoIdentifier)
    /\ op = [name |-> "get_all_indices"]
    /\ container = "c1"
    /\ store = {}
    /\ service_doc \in IndexDocuments
    /\ DeleteIdle
    /\ ListingIdle
    /\ UploadIdle

\* get_all_indices(connection): the service document is fetched and the
\* loop run over its indices.
GetAllIndicesCall ==
    /\ pc = "call"
    /\ calls' = Append(calls, Req("GET", ServiceDocument))
    /\ LET r == GetAllIndices(service_doc)
       IN  result' = IF r.ok THEN Returned(ListValue(r.indices))
                     ELSE RaisedPlain("IndexError")
    /\ pc' = "done"
    /\ UNCHANGED <<adapter, path, op, backendVars, otherThanOps>>

IndicesNext == GetAllIndicesCall

SpecIndices == IndicesInit /\ [][IndicesNext]_vars

\* The number of leading '--' pairs of a title.
DepthOf(title) ==
    LET dashes == {n \in 0..Len(title) : \A i \in 1..n : title[i] = "-"}
        longest == CHOOSE n \in dashes : \A m \in dashes : m <= n
    IN  longest \div 2

\* The first index is at depth 0 and none is more than one level below the
\* one before it.
WellNested(doc) ==
    /\ doc # <<>> => DepthOf(doc[1].title) = 0
    /\ \A i \in 2..Len(doc) : DepthOf(doc[i].title) <= DepthOf(doc[i - 1].title) + 1

\* C19: get_all_indices, on a service document whose first index is at
\* depth 0 and whose depths grow by at most one from an index to the next,
\* returns the same indices in the same order, leaves parentIdentifier unset
\* on every index of depth 0, and gives every index of depth d > 0 the
\* identifier of the nearest index of depth d-1 before it.
C19_ParentIsNearestShallower ==
    (op.name = "get_all_indices" /\ pc = "done" /\ WellNested(service_doc)) =>
        /\ result.kind = "returned"
        /\ LET out == result.value.items
               depth == [i \in 1..Len(service_doc) |-> DepthOf(service_doc[i].title)]
           IN  /\ Len(out) = Len(service_doc)
               /\ \A i \in 1..Len(out) :
                      /\ out[i].id = service_doc[i].id
                      /\ out[i].title = service_doc[i].title
                      /\ depth[i] = 0 => out[i].parentIdentifier = NoIdentifier
                      /\ depth[i] > 0 =>
                            \E j \in 1..(i - 1) :
                                /\ depth[j] = depth[i] - 1
                                /\ \A k \in (j + 1)..(i - 1) : depth[k] # depth[i] - 1
                                /\ out[i].parentIdentifier = service_doc[j].id

\* Indices at depths 0, 1, 0, 1: the fourth got the third as its parent.
C19_Witness ==
    /\ op.name = "get_all_indices"
    /\ pc = "done"
    /\ Len(service_doc) = 4
    /\ WellNested(service_doc)
    /\ DepthOf(service_doc[2].title) = 1
    /\ DepthOf(service_doc[3].title) = 0
    /\ DepthOf(service_doc[4].title) = 1
    /\ result.kind = "returned"
    /\ result.value.items[4].parentIdentifier = service_doc[3].id

-----------------------------------------------------------------------------
\* OsfAuthHandler: fetch and get

\* A header, query argument or bundle entry: there or not, and its text.
Absent == [present |-> FALSE, value |-> <<>>]
Present(text) == [present |-> TRUE, value |-> text]

Bearer == <<"Bearer ">>

\* The Authorization headers a request comes with: none, an empty one, a
\* bearer token, 'Bearer' with no space after it, and another scheme.
RequestAuthorizations ==
    {Absent, Present(<<>>), Present(Bearer \o <<"r">>), Present(<<"Bearer", "r">>),
     Present(<<"Basic ", "r">>)}

BundleTokens == {Absent, Present(<<"b">>)}
QueryTokens == {Absent, Present(<<"q">>)}

\* What the identity service answers: its status and whether the body
\* parses as JSON.
Responses == [status : {200, 401, 403, 500}, json : BOOLEAN]
NoResponse == [status |-> 0, json |-> FALSE]

\* fetch with the bundle token taken before the request's own header.
FetchAuthorizationBundleFirst(authorization, bundle_token) ==
    IF bundle_token.present THEN Present(Bearer \o bundle_token.value)
    ELSE IF authorization.present /\ authorization.value # <<>>
            /\ StartsWith(authorization.value, Bearer)
         THEN authorization
         ELSE Absent

\* The Authorization header fetch sends: authorization is
\* request.headers.get('Authorization'), which an empty text fails like None.
FetchAuthorization(authorization, bundle_token) ==
    IF authorization.present /\ authorization.value # <<>>
       /\ StartsWith(authorization.value, Bearer)
    THEN authorization
    ELSE IF bundle_token.present THEN Present(Bearer \o bundle_token.value)
         ELSE Absent

\* The Authorization header get sends.
GetAuthorization(authorization, query_token) ==
    IF query_token.present THEN Present(Bearer \o query_token.value)
    ELSE IF authorization.present THEN authorization
         ELSE Absent

\* What fetch and get make of the response.
IdentityResult(response) ==
    IF response.status # 200 THEN Raised("AuthError", response.status)
    ELSE IF response.json THEN Returned([type |-> "identity"])
         ELSE RaisedPlain("ValueError")

AuthInit ==
    /\ pc = "call"
    /\ result = NoResult
    /\ calls = <<>>
    /\ adapter = "osf"
    /\ path = MkPath(Root, NoIdentifier)
    /\ \E name \in {"fetch", "get"}, authorization \in RequestAuthorizations,
          bundle_token \in BundleTokens, query_token \in QueryTokens :
          /\ name = "fetch" => query_token = Absent
          /\ name = "get" => bundle_token = Absent
          /\ op = [name |-> name, authorization |-> authorization,
                   bundle_token |-> bundle_token, query_token |-> query_token,
                   response |-> NoResponse]
    /\ DeleteIdle
    /\ ListingIdle
    /\ BackendIdle
    /\ UploadIdle

\* fetch up to its request to the identity service
FetchRequest ==
    /\ pc = "call"
    /\ op.name = "fetch"
    /\ calls' = Append(calls, [method |-> "GET", key |-> <<"API_URL">>,
                               authorization |->
                                   FetchAuthorization(op.authorization, op.bundle_token)])
    /\ pc' = "sent"
    /\ UNCHANGED <<result, adapter, path, op, backendVars, otherThanOps>>

\* get up to its request to the identity service
GetRequest ==
    /\ pc = "call"
    /\ op.name = "get"
    /\ calls' = Append(calls, [method |-> "GET", key |-> <<"API_URL">>,
                               authorization |->
                                   GetAuthorization(op.authorization, op.query_token)])
    /\ pc' = "sent"
    /\ UNCHANGED <<result, adapter, path, op, backendVars, otherThanOps>>

\* The response and what follows it, the same in fetch and in get.
IdentityResponse ==
    /\ pc = "sent"
    /\ \E response \in Responses :
         /\ op' = [op EXCEPT !.response = response]
         /\ result' = IdentityResult(response)
         /\ pc' = IF IdentityResult(response).kind = "returned" THEN "done" ELSE "raised"
    /\ UNCHANGED <<calls, adapter, path, backendVars, otherThanOps>>

AuthNext ==
    \/ FetchRequest
    \/ GetRequest
    \/ IdentityResponse

SpecAuth == AuthInit /\ [][AuthNext]_vars

\* The Authorization header the claim's precedence picks.
ExpectedAuthorization ==
    IF op.name = "fetch"
    THEN IF op.authorization.present /\ op.authorization.value # <<>>
            /\ op.authorization.value[1] = "Bearer "
         THEN op.authorization
         ELSE IF op.bundle_token.present
              THEN Present(<<"Bearer ">> \o op.bundle_token.value)
              ELSE Absent
    ELSE IF op.query_token.present
         THEN Present(<<"Bearer ">> \o op.query_token.value)
         ELSE op.authorization

\* C20: fetch and get of the OSF auth handler return the identity payload
\* only on status 200 and fail with AuthError of the answered status on any
\* other, whether the error body is JSON or not; the Authorization header
\* of the request they send is, in fetch, the request's own when it starts
\* with 'Bearer ', else 'Bearer ' and the bundle token, else none, and in
\* get, 'Bearer ' and the token query argument, else the request's own
\* header, else none.
C20_IdentityOnlyOn200 ==
    op.name \in {"fetch", "get"} =>
        /\ calls # <<>> =>
              (Len(calls) = 1 /\ calls[1].authorization = ExpectedAuthorization)
        /\ pc \in {"done", "raised"} =>
              /\ calls # <<>>
              /\ result.kind = "returned" => op.response.status = 200
              /\ op.response.status # 200 =>
                    result = Raised("AuthError", op.response.status)

\* fetch got a request with a Basic header and a bundle with a token, sent
\* the bundle token, and the 401 it was answered, its body not JSON, came
\* out as AuthError 401.
C20_Witness ==
    /\ op.name = "fetch"
    /\ pc = "raised"
    /\ op.authorization = Present(<<"Basic ", "r">>)
    /\ op.bundle_token.present
    /\ op.response = [status |-> 401, json |-> FALSE]
    /\ result = Raised("AuthError", 401)
    /\ calls[1].authorization = Present(<<"Bearer ", "b">>)

====
